---- MODULE Spec2Model ----
(***************************************************************************)
(* Model of the Garmin biometric service: the telemetry normalizer and     *)
(* time-series store (biometric_data_service.py) and the analytics job     *)
(* queue, job processor and result store (biometric_data_analytics.py).    *)
(***************************************************************************)
EXTENDS Integers, Sequences, FiniteSets, TLC

(***************************************************************************)
(* Bounds of the model                                                     *)
(***************************************************************************)
MaxJobs == 2           \* at most this many rows in analytics_jobs
MaxCrashes == 1        \* at most this many processor terminations
MaxConsec == 8         \* cap on the counter of consecutive failed iterations

(***************************************************************************)
(* Program constants                                                       *)
(***************************************************************************)
max_retries == 5       \* run_processor
BackoffCap == 60       \* min(60, ...) in run_processor

Users == {1, 2}

Min(a, b) == IF a <= b THEN a ELSE b
Max(a, b) == IF a >= b THEN a ELSE b

RECURSIVE Pow2(_)
Pow2(n) == IF n = 0 THEN 1 ELSE 2 * Pow2(n - 1)

VARIABLES
    jobs,          \* analytics_jobs: sequence of rows, id = index, in creation order
    pc,            \* position of the processor (run_processor / _process_job)
    snapshot,      \* the list returned by _get_pending_jobs (job ids)
    cur,           \* index in snapshot of the job the for loop is at
    retry_count,   \* run_processor's retry_count
    wait_time,     \* the last backoff wait computed by run_processor
    saved,         \* return value of _save_analytics_results for the current job
    crashes,       \* number of processor terminations so far
    computed,      \* history: the jobs whose _calculate_analytics has been started
    recomputed,    \* history: the jobs whose _calculate_analytics was started again
    abandoned,     \* history: jobs of a snapshot the processor died before marking
    consec,        \* history: number of consecutive loop iterations that raised
    results,       \* analytics_results of the current job (_calculate_analytics)
    today,         \* the calendar day of datetime.now(), in days since the epoch
    biometric_data,    \* the time-series table, rows in insertion order
    detailed_metrics,  \* the detailed_metrics table
    user_analytics,    \* the user_analytics table
    fpc,           \* position of the fetch service (fetch_and_store_data)
    method,        \* index in AVAILABLE_METHODS of the call the fetch loop is at
    stored_data_count, \* fetch_and_store_data's stored_data_count
    client,        \* whether self.client is set (an authenticated session)
    cooldown,      \* whether rate_limit_time is set and the cooldown has not elapsed
    cycle_rows,    \* history: rows the current fetch cycle has written to the store
    call,          \* history: the current (or last) _safe_call and what it returned
    limited,       \* history: the source answered 429 less than 3700 seconds ago
    late_call,     \* history: the source was called while limited
    last_save,     \* history: the last direct _save_to_timescale call and its outcome
    saves          \* history: number of direct _save_to_timescale calls so far

procVars == <<pc, snapshot, cur, retry_count, wait_time, saved, crashes, results>>
histVars == <<computed, recomputed, abandoned, consec>>
tableVars == <<detailed_metrics, user_analytics>>
fetchVars == <<fpc, method, stored_data_count, client, cooldown, cycle_rows,
               call, limited, late_call>>
saveVars == <<last_save, saves>>

vars == <<jobs, pc, snapshot, cur, retry_count, wait_time, saved, crashes,
          computed, recomputed, abandoned, consec, results, today,
          biometric_data, detailed_metrics, user_analytics, fpc, method,
          stored_data_count, client, cooldown, cycle_rows, call, limited,
          late_call, last_save, saves>>

JobIds == 1..Len(jobs)

Statuses == {"pending", "processing", "completed", "failed"}

\* SELECT * FROM analytics_jobs WHERE status = 'pending' ORDER BY created_at ASC
RECURSIVE PendingFrom(_, _)
PendingFrom(js, i) ==
    IF i > Len(js) THEN <<>>
    ELSE (IF js[i].status = "pending" THEN <<i>> ELSE <<>>) \o PendingFrom(js, i + 1)

\* the same query with WHERE status IN ('pending', 'processing')
RECURSIVE UnfinishedFrom(_, _)
UnfinishedFrom(js, i) ==
    IF i > Len(js) THEN <<>>
    ELSE (IF js[i].status \in {"pending", "processing"} THEN <<i>> ELSE <<>>)
         \o UnfinishedFrom(js, i + 1)

UnfinishedJobs(js) == UnfinishedFrom(js, 1)

PendingJobs(js) == PendingFrom(js, 1)

\* UPDATE analytics_jobs SET status = %s WHERE id = %s; a failure is logged and swallowed
UpdateJobStatus(js, id, status, ok) ==
    IF ok THEN [js EXCEPT ![id].status = status] ELSE js

\* INSERT INTO analytics_jobs (user_id, status) VALUES (%s, 'pending')
InsertJob(js, u) == Append(js, [user_id |-> u, status |-> "pending"])

Range(s) == {s[i] : i \in 1..Len(s)}

(***************************************************************************)
(* JSON-like payload values.  A payload is a number, null, a value that    *)
(* json.dumps cannot serialize ("bad"), a dict (ordered key/value pairs,   *)
(* as Python dicts are ordered) or a list.                                 *)
(***************************************************************************)
Num(n) == [t |-> "num", v |-> n]
\* a number too large for 32-bit integers (an epoch in milliseconds):
\* the number v * 1000 + ms, held as whole seconds v and milliseconds ms
NumMs(v, ms) == [t |-> "num_ms", v |-> v, ms |-> ms]
Str(s) == [t |-> "str", v |-> s]
Null == [t |-> "null", v |-> 0]
Bad == [t |-> "bad", v |-> 0]
Dict(items) == [t |-> "dict", items |-> items]
List(items) == [t |-> "list", items |-> items]
KV(k, v) == [k |-> k, v |-> v]

\* isinstance(value, (dict, list))
IsContainer(x) == x.t \in {"dict", "list"}

\* whether json.dumps(x) returns (TRUE) or raises TypeError (FALSE)
RECURSIVE Serializable(_)
Serializable(x) ==
    CASE x.t = "bad" -> FALSE
      [] x.t = "dict" -> \A i \in 1..Len(x.items) : Serializable(x.items[i].v)
      [] x.t = "list" -> \A i \in 1..Len(x.items) : Serializable(x.items[i])
      [] OTHER -> TRUE

\* json.dumps(x) of a serializable x: the JSON text, which determines x
Dumps(x) == [json |-> x]

\* the value psycopg2 hands back for a JSONB column holding the text j
Loads(j) == j.json

\* key in d (d a dict value)
HasKey(d, k) == \E i \in 1..Len(d.items) : d.items[i].k = k

\* d[k]
Get(d, k) == d.items[CHOOSE i \in 1..Len(d.items) : d.items[i].k = k].v

\* Python truthiness of a scalar: None and 0 are falsy
Truthy(x) ==
    CASE x.t = "null" -> FALSE
      [] x.t = "num" -> x.v # 0
      [] x.t \in {"dict", "list"} -> Len(x.items) > 0
      [] OTHER -> TRUE

(***************************************************************************)
(* Timestamps and metric names                                             *)
(***************************************************************************)
USecPerSec == 1000000
SecPerDay == 86400
MsEpochMin == 1000000000       \* ts_value > 1000000000000 (in whole seconds)
SecEpochMin == 1000000000      \* ts_value > 1000000000

\* datetime.fromisoformat(f"{date}T00:00:00+00:00")
BaseTimestamp(day) == [day |-> day, sec |-> 0, us |-> 0]

\* timestamp.replace(microsecond=offset)
ReplaceMicrosecond(ts, offset) == [ts EXCEPT !.us = offset]

\* (microsecond_offset + 1) % 1000000
NextOffset(offset) == (offset + 1) % USecPerSec

\* f"{data_type}.{key}", f"{data_type}.count", f"{data_type}.item_{i}", ...
MetricName(dt, kind, name, i) == [dt |-> dt, kind |-> kind, name |-> name, i |-> i]
KeyMetric(dt, key) == MetricName(dt, "key", key, 0)
CountMetric(dt) == MetricName(dt, "key", "count", 0)
ItemMetric(dt, i) == MetricName(dt, "item", "item_", i)
ValueMetric(dt) == MetricName(dt, "key", "value", 0)

\* a row of biometric_data as _save_to_timescale builds it
Row(u, ts, dt, metric, value, raw) ==
    [user_id |-> u, timestamp |-> ts, data_type |-> dt, metric_name |-> metric,
     value |-> value, raw_data |-> raw]

\* UNIQUE (user_id, timestamp, data_type, metric_name)
RowKey(r) == <<r.user_id, r.timestamp, r.data_type, r.metric_name>>

(***************************************************************************)
(* _save_to_timescale: normalization of one payload into rows              *)
(***************************************************************************)
max_items == 250

sleep_duration_fields ==
    <<"sleepTimeSeconds", "totalSleepTimeSeconds", "deepSleepSeconds", "napTimeSeconds">>

\* key.endswith(("Values", "ValuesArray")), on the keys of the model's payloads
IsSeriesKey(key) ==
    key \in {"heartRateValues", "heartRateValuesArray", "stressValuesArray",
             "bodyBatteryValuesArray", "hrvValues"}

\* key.replace("ValuesArray", "").replace("Values", "")
SeriesName(key) ==
    CASE key \in {"heartRateValues", "heartRateValuesArray"} -> "heartRate"
      [] key = "stressValuesArray" -> "stress"
      [] key = "bodyBatteryValuesArray" -> "bodyBattery"
      [] key = "hrvValues" -> "hrv"
      [] OTHER -> key

\* datetime.fromisoformat(ts_value.replace('Z', '+00:00')) on the strings of the
\* model's payloads; day 0 stands for "the string does not parse"
FromIsoFormat(s) ==
    CASE s = "2023-11-15T08:30:00Z" -> [day |-> 19676, sec |-> 30600, us |-> 0]
      [] s = "2023-11-14T23:59:59Z" -> [day |-> 19675, sec |-> 86399, us |-> 0]
      [] OTHER -> [day |-> 0, sec |-> 0, us |-> 0]

NoTime == [day |-> 0, sec |-> 0, us |-> 0]

\* datetime.fromtimestamp(seconds, tz=utc)
FromTimestamp(seconds, us) ==
    [day |-> seconds \div SecPerDay, sec |-> seconds % SecPerDay, us |-> us]

\* datetime.fromtimestamp(n, tz=utc) for the number n = v * 1000 + ms read as
\* seconds: 432000 s are 5 days, so the days are counted without forming n
FromBigTimestamp(v, ms) ==
    LET a == v \div 432
        rest == (v % 432) * 1000 + ms
    IN [day |-> 5 * a + rest \div SecPerDay, sec |-> rest % SecPerDay, us |-> 0]

\* the embedded timestamp of a time-series entry, NoTime when there is none
EntryTime(ts_value) ==
    CASE ts_value.t = "num_ms" ->
            IF ts_value.v > MsEpochMin \/ (ts_value.v = MsEpochMin /\ ts_value.ms > 0)
            THEN FromTimestamp(ts_value.v, ts_value.ms * 1000)
            ELSE FromBigTimestamp(ts_value.v, ts_value.ms)
      [] ts_value.t = "num" ->
            IF ts_value.v > SecEpochMin THEN FromTimestamp(ts_value.v, 0) ELSE NoTime
      [] ts_value.t = "str" -> FromIsoFormat(ts_value.v)
      [] OTHER -> NoTime

\* accumulator of the row-building loops: the rows so far and microsecond_offset
Acc(rows, off) == [rows |-> rows, off |-> off]

\* rows.append(...) at timestamp.replace(microsecond=microsecond_offset)
AppendAtOffset(acc, u, ts, dt, metric, value, raw) ==
    Acc(Append(acc.rows, Row(u, ReplaceMicrosecond(ts, acc.off), dt, metric, value, raw)),
        NextOffset(acc.off))

\* for key, value in data.items(): top-level scalar metrics
RECURSIVE TopLevelRows(_, _, _, _, _, _, _)
TopLevelRows(acc, u, ts, dt, data, raw, i) ==
    IF i > Len(data.items) THEN acc
    ELSE LET kv == data.items[i]
             nxt == IF ~IsContainer(kv.v) /\ Serializable(kv.v)
                    THEN AppendAtOffset(acc, u, ts, dt, KeyMetric(dt, kv.k),
                                        Dumps(Dict(<<KV(kv.k, kv.v)>>)), raw)
                    ELSE acc
         IN TopLevelRows(nxt, u, ts, dt, data, raw, i + 1)

\* for field in sleep_duration_fields: fields of one nested object
RECURSIVE NestedSleepFields(_, _, _, _, _, _, _)
NestedSleepFields(acc, u, ts, dt, value, raw, f) ==
    IF f > Len(sleep_duration_fields) THEN acc
    ELSE LET field == sleep_duration_fields[f]
             nxt == IF HasKey(value, field) /\ Get(value, field).t # "null"
                       /\ Serializable(Get(value, field))
                    THEN AppendAtOffset(acc, u, ts, dt, KeyMetric(dt, field),
                                        Dumps(Dict(<<KV(field, Get(value, field))>>)), raw)
                    ELSE acc
         IN NestedSleepFields(nxt, u, ts, dt, value, raw, f + 1)

\* for key, value in data.items(): if isinstance(value, dict): ...
RECURSIVE NestedSleepRows(_, _, _, _, _, _, _)
NestedSleepRows(acc, u, ts, dt, data, raw, i) ==
    IF i > Len(data.items) THEN acc
    ELSE LET kv == data.items[i]
             nxt == IF kv.v.t = "dict"
                    THEN NestedSleepFields(acc, u, ts, dt, kv.v, raw, 1)
                    ELSE acc
         IN NestedSleepRows(nxt, u, ts, dt, data, raw, i + 1)

\* for field in sleep_duration_fields: if field in data and ...
RECURSIVE TopSleepRows(_, _, _, _, _, _, _)
TopSleepRows(acc, u, ts, dt, data, raw, f) ==
    IF f > Len(sleep_duration_fields) THEN acc
    ELSE LET field == sleep_duration_fields[f]
             nxt == IF HasKey(data, field) /\ Get(data, field).t # "null"
                       /\ ~IsContainer(Get(data, field))
                       /\ Serializable(Get(data, field))
                    THEN AppendAtOffset(acc, u, ts, dt, KeyMetric(dt, field),
                                        Dumps(Dict(<<KV(field, Get(data, field))>>)), raw)
                    ELSE acc
         IN TopSleepRows(nxt, u, ts, dt, data, raw, f + 1)

\* entry[1:] if len(entry) > 2 else entry[1]
EntryValue(entry) ==
    IF Len(entry.items) > 2 THEN List(Tail(entry.items)) ELSE entry.items[2]

\* for i, entry in enumerate(value): one row per [timestamp, value...] entry; an
\* entry with an embedded timestamp is stored at that instant, an entry without
\* one at the next microsecond offset of the base timestamp
SeriesRows(acc, u, ts, dt, key, value, raw) ==
    LET good == SelectSeq([i \in 1..Len(value.items) |-> i],
                          LAMBDA i : value.items[i].t = "list"
                                       /\ Len(value.items[i].items) >= 2)
        et == [k \in 1..Len(good) |-> EntryTime(value.items[good[k]].items[1])]
        untimed(k) == Cardinality({j \in 1..k : et[j] = NoTime})
        metric == MetricName(dt, "key", SeriesName(key), 0)
        rows == [k \in 1..Len(good) |->
                    LET json == Dumps(Dict(<<KV("value", EntryValue(value.items[good[k]]))>>))
                    IN IF et[k] = NoTime
                       THEN Row(u, ReplaceMicrosecond(ts, (acc.off + untimed(k) - 1) % USecPerSec),
                                dt, metric, json, raw)
                       ELSE Row(u, et[k], dt, metric, json, raw)]
    IN Acc(acc.rows \o rows, (acc.off + untimed(Len(good))) % USecPerSec)

\* for key, value in data.items(): time-series arrays
RECURSIVE TimeSeriesRows(_, _, _, _, _, _, _)
TimeSeriesRows(acc, u, ts, dt, data, raw, i) ==
    IF i > Len(data.items) THEN acc
    ELSE LET kv == data.items[i]
             nxt == IF kv.v.t = "list" /\ IsSeriesKey(kv.k)
                    THEN SeriesRows(acc, u, ts, dt, kv.k, kv.v, raw)
                    ELSE acc
         IN TimeSeriesRows(nxt, u, ts, dt, data, raw, i + 1)

\* the dict branch of _save_to_timescale (raw_json = json.dumps(data) succeeded)
DictRows(u, ts, dt, data) ==
    LET raw == Dumps(data)
        a1 == TopLevelRows(Acc(<<>>, 0), u, ts, dt, data, raw, 1)
        a2 == IF dt = "sleep" THEN NestedSleepRows(a1, u, ts, dt, data, raw, 1) ELSE a1
        a3 == IF dt = "sleep" THEN TopSleepRows(a2, u, ts, dt, data, raw, 1) ELSE a2
        a4 == TimeSeriesRows(a3, u, ts, dt, data, raw, 1)
    IN a4.rows

\* for i, item in enumerate(data): one row per item that json.dumps accepts, at
\* consecutive microsecond offsets (item i of the model is item_{i-1} of the code)
ItemRows(acc, u, ts, dt, data, raw) ==
    LET good == SelectSeq([i \in 1..Len(data.items) |-> i],
                          LAMBDA i : Serializable(data.items[i]))
        rows == [k \in 1..Len(good) |->
                    Row(u, ReplaceMicrosecond(ts, (acc.off + k - 1) % USecPerSec), dt,
                        ItemMetric(dt, good[k] - 1), Dumps(data.items[good[k]]), raw)]
    IN Acc(acc.rows \o rows, (acc.off + Len(good)) % USecPerSec)

\* the list branch of _save_to_timescale (raw_json = json.dumps(data) succeeded)
ListRows(u, ts, dt, data) ==
    LET raw == Dumps(data)
        a1 == AppendAtOffset(Acc(<<>>, 0), u, ts, dt, CountMetric(dt),
                             Dumps(Dict(<<KV("count", Num(Len(data.items)))>>)), raw)
        a2 == IF Len(data.items) <= max_items
              THEN ItemRows(a1, u, ts, dt, data, raw)
              ELSE a1
    IN a2.rows

\* the scalar branch: one "{data_type}.value" row, none when json.dumps raises
ScalarRows(u, ts, dt, data) ==
    IF Serializable(data)
    THEN <<Row(u, ReplaceMicrosecond(ts, 0), dt, ValueMetric(dt),
               Dumps(Dict(<<KV("value", data)>>)), Null)>>
    ELSE <<>>

\* The rows _save_to_timescale builds for a payload, and whether building them
\* raised (json.dumps of the whole dict or list at lines 375 and 499).
Normalize(u, day, dt, data) ==
    LET ts == BaseTimestamp(day)
    IN CASE data.t = "dict" ->
              IF Serializable(data)
              THEN [raised |-> FALSE, rows |-> DictRows(u, ts, dt, data)]
              ELSE [raised |-> TRUE, rows |-> <<>>]
         [] data.t = "list" ->
              IF Serializable(data)
              THEN [raised |-> FALSE, rows |-> ListRows(u, ts, dt, data)]
              ELSE [raised |-> TRUE, rows |-> <<>>]
         [] OTHER -> [raised |-> FALSE, rows |-> ScalarRows(u, ts, dt, data)]

(***************************************************************************)
(* The time-series store: INSERT ... ON CONFLICT (user_id, timestamp,      *)
(* data_type, metric_name) DO UPDATE SET value, raw_data                   *)
(***************************************************************************)
page_size == 500

\* index of the stored row with key k, 0 when there is none
IndexOfKey(store, k) ==
    IF \E i \in 1..Len(store) : RowKey(store[i]) = k
    THEN CHOOSE i \in 1..Len(store) : RowKey(store[i]) = k
    ELSE 0

\* INSERT of the rows without an ON CONFLICT clause
InsertRows(store, rows) == store \o rows

\* one statement proposing rows with pairwise distinct keys: a row that collides
\* with a stored row overwrites its value and raw_data, the others are inserted
UpsertRows(store, rows) ==
    LET proposed_keys == {RowKey(rows[j]) : j \in 1..Len(rows)}
        stored_keys == {RowKey(store[i]) : i \in 1..Len(store)}
        proposed(k) == rows[CHOOSE j \in 1..Len(rows) : RowKey(rows[j]) = k]
        updated == [i \in 1..Len(store) |->
                       IF RowKey(store[i]) \in proposed_keys
                       THEN [store[i] EXCEPT !.value = proposed(RowKey(store[i])).value,
                                             !.raw_data = proposed(RowKey(store[i])).raw_data]
                       ELSE store[i]]
        fresh == SelectSeq(rows, LAMBDA r : RowKey(r) \notin stored_keys)
    IN updated \o fresh

\* PostgreSQL rejects a statement that proposes the same key twice ("ON CONFLICT
\* DO UPDATE command cannot affect row a second time")
HasDuplicateKeys(rows) ==
    Cardinality({RowKey(rows[i]) : i \in 1..Len(rows)}) < Len(rows)

\* execute_values(cursor, sql, rows, page_size=500): one statement per page
RECURSIVE ExecuteValues(_, _)
ExecuteValues(store, rows) ==
    IF Len(rows) = 0 THEN [ok |-> TRUE, store |-> store]
    ELSE LET n == Min(page_size, Len(rows))
             page == SubSeq(rows, 1, n)
         IN IF HasDuplicateKeys(page) THEN [ok |-> FALSE, store |-> store]
            ELSE ExecuteValues(UpsertRows(store, page), SubSeq(rows, n + 1, Len(rows)))

\* a save whose failed insert is not rolled back
SaveWithoutRollback(store, u, day, dt, data, db_ok) ==
    LET n == Normalize(u, day, dt, data)
        w == ExecuteValues(store, n.rows)
    IN IF data.t = "null" \/ n.raised \/ Len(n.rows) = 0
       THEN [ret |-> ~n.raised, store |-> store, rows |-> <<>>]
       ELSE [ret |-> db_ok /\ w.ok, store |-> w.store, rows |-> n.rows]

\* _save_to_timescale(user_id, date, data_type, data) with the database answering
\* db_ok: the store afterwards and the value returned
SaveToTimescale(store, u, day, dt, data, db_ok) ==
    LET n == Normalize(u, day, dt, data)
        w == ExecuteValues(store, n.rows)
    IN IF data.t = "null" THEN [ret |-> TRUE, store |-> store, rows |-> <<>>]
       ELSE IF n.raised THEN [ret |-> FALSE, store |-> store, rows |-> <<>>]
       ELSE IF Len(n.rows) = 0 THEN [ret |-> TRUE, store |-> store, rows |-> <<>>]
       ELSE IF db_ok /\ w.ok THEN [ret |-> TRUE, store |-> w.store, rows |-> n.rows]
       ELSE [ret |-> FALSE, store |-> store, rows |-> <<>>]

(***************************************************************************)
(* _get_user_data: the rows of a user in a trailing window                 *)
(***************************************************************************)
NowSec == 43200        \* time of day of datetime.now() when the processor reads

TsLeq(a, b) ==
    \/ a.day < b.day
    \/ a.day = b.day /\ a.sec < b.sec
    \/ a.day = b.day /\ a.sec = b.sec /\ a.us <= b.us

\* WHERE user_id = %s AND timestamp >= now - days_back AND timestamp <= now
InWindow(r, u, now_day, days_back) ==
    /\ r.user_id = u
    /\ TsLeq([day |-> now_day - days_back, sec |-> NowSec, us |-> 0], r.timestamp)
    /\ TsLeq(r.timestamp, [day |-> now_day, sec |-> NowSec, us |-> 0])

WindowRows(store, u, now_day, days_back) ==
    {store[i] : i \in {j \in 1..Len(store) : InWindow(store[j], u, now_day, days_back)}}

\* ORDER BY timestamp DESC: store[j] comes before store[i] in the result, or is
\* it (rows with one timestamp are taken in the order of the table)
Precedes(store, j, i) ==
    \/ ~TsLeq(store[j].timestamp, store[i].timestamp)
    \/ store[j].timestamp = store[i].timestamp /\ j <= i

\* the place of store[i] in the result, whose rows are the rows W of the table
WindowPlace(store, W, i) == Cardinality({j \in W : Precedes(store, j, i)})

\* the key of data[data_type][date][metric_name]
DataKey(r) == <<r.data_type, r.timestamp.day, r.metric_name>>

\* data[data_type][date][metric_name] = value, filled in descending timestamp
\* order: of the rows with one (data_type, date, metric_name) the earliest stays,
\* at the place pos where the first of them had put the key into the dict
UserData(store, u, now_day, days_back) ==
    LET W == {i \in 1..Len(store) : InWindow(store[i], u, now_day, days_back)}
        same(i) == {j \in W : DataKey(store[j]) = DataKey(store[i])}
        last == {i \in W : \A j \in same(i) : Precedes(store, j, i)}
        first(i) == CHOOSE j \in same(i) : \A k \in same(i) : Precedes(store, j, k)
    IN {[f \in DOMAIN store[i] \cup {"pos"} |->
            IF f = "pos" THEN WindowPlace(store, W, first(i)) ELSE store[i][f]] : i \in last}

DataTypesOf(user_data) == {r.data_type : r \in user_data}
DatesOf(user_data, dt) == {r.timestamp.day : r \in {q \in user_data : q.data_type = dt}}
MetricsOf(user_data, dt, date) ==
    {r \in user_data : r.data_type = dt /\ r.timestamp.day = date}

\* metrics.items(): the values of one date in the order their keys were inserted
MetricItems(user_data, dt, date) ==
    LET S == MetricsOf(user_data, dt, date)
    IN [k \in 1..Cardinality(S) |->
           CHOOSE r \in S : Cardinality({x \in S : x.pos < r.pos}) = k - 1]

(***************************************************************************)
(* Floating-point values, kept as fractions n / d in lowest terms          *)
(***************************************************************************)
RECURSIVE GCD(_, _)
GCD(a, b) == IF b = 0 THEN a ELSE GCD(b, a % b)

Rat(n, d) == [n |-> n \div GCD(n, d), d |-> d \div GCD(n, d)]
RatAdd(a, b) == Rat(a.n * b.d + b.n * a.d, a.d * b.d)
RatDiv(a, k) == Rat(a.n, a.d * k)
RatLeq(a, b) == a.n * b.d <= b.n * a.d

\* sum(values) of a list
RECURSIVE RatSum(_)
RatSum(values) ==
    IF Len(values) = 0 THEN Rat(0, 1) ELSE RatAdd(Head(values), RatSum(Tail(values)))

\* sum(values) / len(values)
Mean(values) == RatDiv(RatSum(values), Len(values))

\* float(x) for a JSON value x; err when float() raises (the strings of the
\* model's payloads are not numerals)
FloatOf(x) ==
    IF x.t = "num" THEN [err |-> FALSE, v |-> Rat(x.v, 1)]
    ELSE [err |-> TRUE, v |-> Rat(0, 1)]

(***************************************************************************)
(* _calculate_daily_metrics: the steps family                              *)
(***************************************************************************)
\* int(x) if x else 0, for a JSON value x; "err" when int() raises
IntOrZero(x) ==
    CASE ~Truthy(x) -> [err |-> FALSE, v |-> 0]
      [] x.t = "num" -> [err |-> FALSE, v |-> x.v]
      [] OTHER -> [err |-> TRUE, v |-> 0]

\* the contribution of one stored row to step_count (steps.count rows)
StepCountOf(r) ==
    LET value_data == Loads(r.value)
    IN IF value_data.t = "dict" /\ r.metric_name = CountMetric("steps")
          /\ HasKey(value_data, "count") /\ ~IntOrZero(Get(value_data, "count")).err
       THEN IntOrZero(Get(value_data, "count")).v
       ELSE 0

\* the contribution of one stored row to total_steps (steps.item_X rows)
StepItemOf(r) ==
    LET value_data == Loads(r.value)
    IN IF value_data.t = "dict" /\ r.metric_name # CountMetric("steps")
          /\ r.metric_name.kind = "item"
          /\ HasKey(value_data, "steps") /\ ~IntOrZero(Get(value_data, "steps")).err
       THEN IntOrZero(Get(value_data, "steps")).v
       ELSE 0

\* total_steps += ... over the rows of one day
RECURSIVE TotalSteps(_)
TotalSteps(S) ==
    IF S = {} THEN 0
    ELSE LET x == CHOOSE y \in S : TRUE IN StepItemOf(x) + TotalSteps(S \ {x})

\* step_count = max(step_count, ...) over the rows of one day, from 0
RECURSIVE StepCount(_)
StepCount(S) ==
    IF S = {} THEN 0
    ELSE LET x == CHOOSE y \in S : TRUE IN Max(StepCountOf(x), StepCount(S \ {x}))

\* the step count alone, the interval values ignored
StepCountOnly(metrics) == StepCount(metrics)

\* daily_metrics[date]['steps'] = max(step_count, total_steps)
DailySteps(metrics) == Max(StepCount(metrics), TotalSteps(metrics))

(***************************************************************************)
(* _calculate_daily_metrics: the families read by an if/elif chain         *)
(***************************************************************************)
\* one branch of a chain: if key in value_data and value_data[key], the number
\* float(value_data[key]) / div is assigned to the field ("set"), appended to
\* it ("append"), or the numbers of a list are appended to it ("extend").  The
\* branches on 'value' also test metric_name.startswith(<data type>), which
\* holds for every row of the data type.
Branch(key, field, mode, div) == [key |-> key, field |-> field, mode |-> mode, div |-> div]

\* the chain of each data type, in the order of its branches
ChainOf(dt) ==
    CASE dt = "heart_rate" ->
            <<Branch("restingHeartRate", "resting_hr", "set", 1),
              Branch("value", "hr_values", "append", 1),
              Branch("avgHeartRate", "hr_values", "append", 1),
              Branch("heartRateValues", "hr_values", "extend", 1)>>
      [] dt = "resting_hr" ->
            <<Branch("value", "resting_hr", "set", 1),
              Branch("restingHeartRate", "resting_hr", "set", 1)>>
      [] dt = "sleep" ->
            <<Branch("sleepTimeSeconds", "sleep_duration", "set", 3600),
              Branch("totalSleepTimeSeconds", "sleep_duration", "set", 3600),
              Branch("deepSleepSeconds", "deep_sleep", "set", 3600)>>
      [] dt = "stress" ->
            <<Branch("avgStressLevel", "stress_values", "append", 1),
              Branch("overallStressLevel", "stress_values", "append", 1),
              Branch("value", "stress_values", "append", 1)>>
      [] dt = "hrv" ->
            <<Branch("weeklyAvg", "hrv_weekly_avg", "set", 1),
              Branch("lastNightAvg", "hrv_last_night_avg", "set", 1),
              Branch("lastNight5MinHigh", "hrv_5min_high", "set", 1),
              Branch("lastNight5MinLow", "hrv_5min_low", "set", 1),
              Branch("hrvValue", "hrv_readings", "append", 1),
              Branch("avgHRV", "legacy_hrv", "append", 1),
              Branch("value", "legacy_hrv", "append", 1)>>
      [] dt = "body_battery" ->
            <<Branch("bodyBatteryValue", "battery_values", "append", 1),
              Branch("value", "battery_values", "append", 1)>>
      [] dt = "spo2" ->
            <<Branch("avgSpo2", "spo2_values", "append", 1),
              Branch("value", "spo2_values", "append", 1)>>
      [] OTHER -> <<>>

\* the local variables of one date, each a list of numbers: a variable that is
\* None or [] is the empty list, a variable that is set holds one number
NoValues(dt) == [f \in {ChainOf(dt)[i].field : i \in 1..Len(ChainOf(dt))} |-> <<>>]

\* [float(x) for x in items if x]; err when a float() raises
RECURSIVE FloatsOf(_)
FloatsOf(items) ==
    IF Len(items) = 0 THEN [err |-> FALSE, v |-> <<>>]
    ELSE LET rest == FloatsOf(Tail(items))
             x == Head(items)
         IN IF ~Truthy(x) THEN rest
            ELSE [err |-> FloatOf(x).err \/ rest.err, v |-> <<FloatOf(x).v>> \o rest.v]

\* the body of the loop over metrics.items() for one row: the first branch whose
\* test holds is taken; an exception leaves the variables as they are
ChainStep(acc, r, chain) ==
    LET value_data == Loads(r.value)
        hits == IF value_data.t = "dict"
                THEN {i \in 1..Len(chain) :
                         HasKey(value_data, chain[i].key)
                           /\ Truthy(Get(value_data, chain[i].key))}
                ELSE {}
    IN IF hits = {} THEN acc
       ELSE LET b == chain[CHOOSE i \in hits : \A j \in hits : i <= j]
                x == Get(value_data, b.key)
            IN CASE b.mode = "extend" /\ x.t = "list" ->
                       IF FloatsOf(x.items).err THEN acc
                       ELSE [acc EXCEPT ![b.field] = @ \o FloatsOf(x.items).v]
                 [] FloatOf(x).err -> acc
                 [] b.mode = "set" -> [acc EXCEPT ![b.field] = <<RatDiv(FloatOf(x).v, b.div)>>]
                 [] OTHER -> [acc EXCEPT ![b.field] = Append(@, FloatOf(x).v)]

\* for metric_name, value in metrics.items(): ...
RECURSIVE ChainRows(_, _, _, _)
ChainRows(acc, items, chain, i) ==
    IF i > Len(items) THEN acc
    ELSE ChainRows(ChainStep(acc, items[i], chain), items, chain, i + 1)

\* primary_hrv: lastNightAvg, else weeklyAvg, else the mean of the readings, else
\* the mean of the legacy values; the empty list when there is none of them
PrimaryHrv(acc) ==
    IF Len(acc.hrv_last_night_avg) > 0 THEN acc.hrv_last_night_avg
    ELSE IF Len(acc.hrv_weekly_avg) > 0 THEN acc.hrv_weekly_avg
    ELSE IF Len(acc.hrv_readings) > 0 THEN <<Mean(acc.hrv_readings)>>
    ELSE IF Len(acc.legacy_hrv) > 0 THEN <<Mean(acc.legacy_hrv)>>
    ELSE <<>>

\* the daily metrics a data type writes, each from a variable of its chain: the
\* variable itself ("last"), its mean ("mean") or primary_hrv ("primary")
Output(metric, field, kind) == [metric |-> metric, field |-> field, kind |-> kind]

OutputsOf(dt) ==
    CASE dt = "heart_rate" ->
            <<Output("resting_hr", "resting_hr", "last"), Output("avg_hr", "hr_values", "mean")>>
      [] dt = "resting_hr" -> <<Output("resting_hr", "resting_hr", "last")>>
      [] dt = "sleep" ->
            <<Output("sleep_duration", "sleep_duration", "last"),
              Output("deep_sleep", "deep_sleep", "last")>>
      [] dt = "stress" -> <<Output("avg_stress", "stress_values", "mean")>>
      [] dt = "hrv" ->
            <<Output("hrv_weekly_avg", "hrv_weekly_avg", "last"),
              Output("hrv_last_night_avg", "hrv_last_night_avg", "last"),
              Output("hrv_5min_high", "hrv_5min_high", "last"),
              Output("hrv_5min_low", "hrv_5min_low", "last"),
              Output("hrv_readings_avg", "hrv_readings", "mean"),
              Output("avg_hrv", "hrv_readings", "primary")>>
      [] dt = "body_battery" -> <<Output("avg_body_battery", "battery_values", "mean")>>
      [] dt = "spo2" -> <<Output("avg_spo2", "spo2_values", "mean")>>
      [] OTHER -> <<>>

\* the value written for an output, the empty list when nothing is written
OutputValue(acc, out) ==
    CASE out.kind = "primary" -> PrimaryHrv(acc)
      [] out.kind = "mean" ->
            IF Len(acc[out.field]) > 0 THEN <<Mean(acc[out.field])>> ELSE <<>>
      [] OTHER -> acc[out.field]

\* the data types _calculate_daily_metrics reads, in the order it reads them
families ==
    <<"steps", "heart_rate", "resting_hr", "sleep", "stress", "hrv", "body_battery", "spo2">>

\* the entries [date, metric, value] family k writes into daily_metrics
FamilyMetrics(user_data, k) ==
    LET dt == families[k]
    IN IF dt = "steps"
       THEN {[date |-> d, metric |-> "steps",
              value |-> Rat(DailySteps(MetricsOf(user_data, "steps", d)), 1)] :
                d \in DatesOf(user_data, "steps")}
       ELSE UNION {LET acc == ChainRows(NoValues(dt), MetricItems(user_data, dt, d),
                                        ChainOf(dt), 1)
                   IN {[date |-> d, metric |-> OutputsOf(dt)[i].metric,
                        value |-> OutputValue(acc, OutputsOf(dt)[i])[1]] :
                          i \in {j \in 1..Len(OutputsOf(dt)) :
                                    Len(OutputValue(acc, OutputsOf(dt)[j])) > 0}} :
                     d \in DatesOf(user_data, dt)}

\* daily_metrics as a set of [date, metric, value] entries, written by the
\* families that are in user_data: a metric written by two families keeps the
\* value of the later one
DailyMetrics(user_data) ==
    LET present == DataTypesOf(user_data)
        written == [k \in 1..Len(families) |->
                       IF families[k] \in present THEN FamilyMetrics(user_data, k) ELSE {}]
    IN UNION {{e \in written[k] :
                  \A l \in (k + 1)..Len(families) :
                     \A x \in written[l] : ~(x.date = e.date /\ x.metric = e.metric)} :
                k \in 1..Len(families)}

\* the dates that are keys of daily_metrics (a date is created for every family read)
DailyDates(user_data) ==
    UNION {DatesOf(user_data, families[k]) : k \in 1..Len(families)}

(***************************************************************************)
(* _calculate_average_metrics                                              *)
(***************************************************************************)
RECURSIVE SumValues(_)
SumValues(S) ==
    IF S = {} THEN Rat(0, 1)
    ELSE LET x == CHOOSE y \in S : TRUE IN RatAdd(x.value, SumValues(S \ {x}))

MinValue(S) == CHOOSE v \in {x.value : x \in S} : \A x \in S : RatLeq(v, x.value)
MaxValue(S) == CHOOSE v \in {x.value : x \in S} : \A x \in S : RatLeq(x.value, v)

\* avg_/min_/max_ of one metric: the average is kept as the fraction sum / len
AverageOf(daily, metric) ==
    LET values == {x \in daily : x.metric = metric}
    IN IF values = {} THEN {}
       ELSE {[name |-> metric, sum |-> SumValues(values), len |-> Cardinality(values),
              min |-> MinValue(values), max |-> MaxValue(values)]}

metrics_to_avg ==
    {"steps", "resting_hr", "avg_hr", "sleep_duration", "deep_sleep", "avg_stress",
     "avg_hrv", "avg_body_battery", "avg_spo2"}

\* avg_metrics as a set of entries (deep_sleep_ratio, derived from two of them,
\* is left out)
AverageMetrics(daily) == UNION {AverageOf(daily, m) : m \in metrics_to_avg}

(***************************************************************************)
(* _calculate_correlation_metrics                                          *)
(***************************************************************************)
min_periods == 3

RatMul(a, b) == Rat(a.n * b.n, a.d * b.d)
RatSub(a, b) == Rat(a.n * b.d - b.n * a.d, a.d * b.d)
\* a / b for b > 0
RatOver(a, b) == Rat(a.n * b.d, a.d * b.n)

\* the columns of the DataFrame built from daily_metrics
Columns(daily) == {x.metric : x \in daily}

\* the value of column c on date d
Cell(daily, d, c) == (CHOOSE x \in daily : x.date = d /\ x.metric = c).value

\* the dates on which the columns a and b both have a value
PairDates(daily, a, b) ==
    {d \in {x.date : x \in daily} :
        /\ \E x \in daily : x.date = d /\ x.metric = a
        /\ \E x \in daily : x.date = d /\ x.metric = b}

\* the sum over the dates D of the products of the columns a and b
RECURSIVE SumProducts(_, _, _, _)
SumProducts(daily, D, a, b) ==
    IF D = {} THEN Rat(0, 1)
    ELSE LET d == CHOOSE e \in D : TRUE
         IN RatAdd(RatMul(Cell(daily, d, a), Cell(daily, d, b)),
                   SumProducts(daily, D \ {d}, a, b))

\* n * sum(xy) - sum(x) * sum(y) over the dates D: n squared times the
\* covariance of the columns a and b
CoMoment(daily, D, a, b) ==
    LET n == Rat(Cardinality(D), 1)
        sum(c) == SumValues({x \in daily : x.metric = c /\ x.date \in D})
    IN RatSub(RatMul(n, SumProducts(daily, D, a, b)), RatMul(sum(a), sum(b)))

\* a correlation coefficient, kept as its sign and its square
Corr(sign, sq) == [t |-> "corr", sign |-> sign, sq |-> sq]

\* one entry of df.corr(method='pearson', min_periods=3), NaN written as None:
\* NaN with fewer than min_periods common dates or with a column of variance 0
Pearson(daily, a, b) ==
    LET D == PairDates(daily, a, b)
        cov == CoMoment(daily, D, a, b)
        va == CoMoment(daily, D, a, a)
        vb == CoMoment(daily, D, b, b)
    IN IF Cardinality(D) < min_periods THEN Null
       ELSE IF va.n = 0 \/ vb.n = 0 THEN Null
       ELSE Corr(IF cov.n > 0 THEN 1 ELSE IF cov.n < 0 THEN -1 ELSE 0,
                 RatMul(RatOver(cov, va), RatOver(cov, vb)))

\* correlation_metrics['correlations'] as a set of entries; no matrix for an
\* empty DataFrame or one with fewer than 2 columns (important_correlations,
\* derived from the matrix, is left out)
CorrelationMetrics(daily) ==
    IF Cardinality(Columns(daily)) < 2 THEN {}
    ELSE {[col1 |-> c[1], col2 |-> c[2], value |-> Pearson(daily, c[1], c[2])] :
             c \in Columns(daily) \X Columns(daily)}

(***************************************************************************)
(* _store_detailed_metrics, _calculate_analytics, _save_analytics_results  *)
(***************************************************************************)
time_ranges ==
    <<[name |-> "week", days_back |-> 7], [name |-> "month", days_back |-> 30],
      [name |-> "quarter", days_back |-> 90]>>

Windows == 1..Len(time_ranges)

\* UNIQUE (user_id, date, metric_name)
DetailKey(r) == <<r.user_id, r.date, r.metric_name>>

\* INSERT INTO detailed_metrics ... ON CONFLICT (user_id, date, metric_name)
\* DO UPDATE SET metric_value = EXCLUDED.metric_value
UpsertDetails(table, rows) ==
    {x \in table : \A r \in rows : DetailKey(x) # DetailKey(r)} \cup rows

\* the rows _store_detailed_metrics writes for one window
DetailRows(u, daily) ==
    {[user_id |-> u, date |-> x.date, metric_name |-> x.metric, metric_value |-> x.value] :
        x \in daily}

\* _store_detailed_metrics with the database answering db_ok
StoreDetailedMetrics(table, u, daily, db_ok) ==
    IF db_ok THEN UpsertDetails(table, DetailRows(u, daily)) ELSE table

\* UNIQUE (user_id, analytics_type, time_range, start_date, end_date)
ResultKey(r) == <<r.user_id, r.analytics_type, r.time_range, r.start_date, r.end_date>>

\* INSERT INTO user_analytics without the ON CONFLICT clause
InsertResult(table, r) == table \cup {r}

\* INSERT INTO user_analytics ... ON CONFLICT (...) DO UPDATE SET metrics = EXCLUDED.metrics
UpsertResult(table, r) == {x \in table : ResultKey(x) # ResultKey(r)} \cup {r}

RECURSIVE UpsertResults(_, _, _)
UpsertResults(table, rs, i) ==
    IF i > Len(rs) THEN table ELSE UpsertResults(UpsertResult(table, rs[i]), rs, i + 1)

\* the result _calculate_analytics appends for one window
WindowResult(u, w, now_day, daily_metrics) ==
    [user_id |-> u, analytics_type |-> "biometric", time_range |-> time_ranges[w].name,
     start_date |-> now_day - time_ranges[w].days_back, end_date |-> now_day,
     metrics |-> AverageMetrics(daily_metrics),
     correlations |-> CorrelationMetrics(daily_metrics)]

\* _calculate_analytics(user_id): the loop over time_ranges from window w on.
\* reads: the windows whose _get_user_data query succeeds; writes: the windows
\* whose _store_detailed_metrics succeeds; raise_at: the window at which an
\* exception reaches the outer handler (0: none), which returns [].
RECURSIVE CalcFrom(_, _, _, _, _, _, _, _, _)
CalcFrom(w, res, details, store, u, now_day, reads, writes, raise_at) ==
    IF w > Len(time_ranges) THEN [results |-> res, details |-> details]
    ELSE IF w = raise_at THEN [results |-> <<>>, details |-> details]
    ELSE LET user_data == IF w \in reads
                          THEN UserData(store, u, now_day, time_ranges[w].days_back)
                          ELSE {}
             \* the window's result and the table after its _store_detailed_metrics
             window == {[result |-> WindowResult(u, w, now_day, daily_metrics),
                         details |-> StoreDetailedMetrics(details, u, daily_metrics,
                                                          w \in writes)] :
                           daily_metrics \in {DailyMetrics(user_data)}}
         IN IF user_data = {}
            THEN CalcFrom(w + 1, res, details, store, u, now_day, reads, writes, raise_at)
            ELSE LET c == CHOOSE x \in window : TRUE
                 IN CalcFrom(w + 1, Append(res, c.result), c.details,
                             store, u, now_day, reads, writes, raise_at)

\* the database outcomes the model lets one _calculate_analytics call meet: every
\* query answers, the month query fails, every query fails; likewise the writes
ReadOutcomes == {Windows, Windows \ {2}, {}}
WriteOutcomes == {Windows, {}}
RaiseOutcomes == {0, 2}

CalculateAnalytics(details, store, u, now_day, reads, writes, raise_at) ==
    CalcFrom(1, <<>>, details, store, u, now_day, reads, writes, raise_at)

\* a save that commits after every row: a failure leaves the first row behind
SaveRowByRow(table, rs, db_ok) ==
    IF Len(rs) = 0 THEN [ret |-> FALSE, table |-> table]
    ELSE IF db_ok THEN [ret |-> TRUE, table |-> UpsertResults(table, rs, 1)]
    ELSE [ret |-> FALSE, table |-> UpsertResult(table, rs[1])]

\* _save_analytics_results(results) with the database answering db_ok: all the
\* upserts are committed together, or none is
SaveAnalyticsResults(table, rs, db_ok) ==
    IF Len(rs) = 0 THEN [ret |-> FALSE, table |-> table]
    ELSE IF db_ok THEN [ret |-> TRUE, table |-> UpsertResults(table, rs, 1)]
    ELSE [ret |-> FALSE, table |-> table]

(***************************************************************************)
(* run_processor and _process_job, one action per database call            *)
(***************************************************************************)
CurrentJob == snapshot[cur]

\* wait_time = min(60, 2 ** retry_count + random.uniform(0, 1))
WaitTime(rc, jitter) == Min(BackoffCap, Pow2(rc) + jitter)

\* the except branch of run_processor, entered with retry_count = rc
LoopFailure(rc) ==
    /\ retry_count' = rc + 1
    /\ \E jitter \in {0, 1} : wait_time' = WaitTime(rc + 1, jitter)
    /\ pc' = IF rc + 1 > max_retries THEN "exited" ELSE "backoff"
    /\ consec' = consec + 1

\* jobs = self._get_pending_jobs(): a read-only snapshot, [] when the query fails
GetPendingJobs ==
    /\ pc = "poll"
    /\ \E ok \in BOOLEAN : snapshot' = IF ok THEN PendingJobs(jobs) ELSE <<>>
    /\ cur' = 1
    /\ pc' = IF Len(snapshot') = 0 THEN "end" ELSE "mark"
    /\ UNCHANGED <<jobs, retry_count, wait_time, saved, crashes, results, computed, recomputed, abandoned, consec, today, biometric_data, fetchVars, saveVars, tableVars>>

\* self._update_job_status(job_id, 'processing')
MarkProcessing ==
    /\ pc = "mark"
    /\ \E ok \in BOOLEAN : jobs' = UpdateJobStatus(jobs, CurrentJob, "processing", ok)
    /\ abandoned' = abandoned \ {CurrentJob}
    /\ pc' = "calc"
    /\ UNCHANGED <<snapshot, cur, retry_count, wait_time, saved, crashes, results,
                   computed, recomputed, consec, today, biometric_data, fetchVars, saveVars, tableVars>>

\* results = self._calculate_analytics(user_id), the database answering its
\* queries as one of reads, its writes as one of writes, and an exception
\* reaching the outer handler as one of raises
CalculateWith(reads_set, writes_set, raises_set) ==
    /\ pc = "calc"
    /\ \E reads \in reads_set, writes \in writes_set, raise_at \in raises_set :
         \E c \in {CalculateAnalytics(detailed_metrics, biometric_data,
                                      jobs[CurrentJob].user_id, today, reads, writes, raise_at)} :
            /\ results' = c.results
            /\ detailed_metrics' = c.details
    /\ computed' = computed \cup {CurrentJob}
    /\ recomputed' = IF CurrentJob \in computed THEN recomputed \cup {CurrentJob}
                     ELSE recomputed
    /\ pc' = "save"
    /\ UNCHANGED <<jobs, snapshot, cur, retry_count, wait_time, saved, crashes,
                   abandoned, consec, today, biometric_data, fetchVars, saveVars, user_analytics>>

\* the telemetry database answers; the computation may raise at its start
Calculate == CalculateWith({Windows}, {Windows}, {0, 1})

\* the telemetry database may fail any of the outcomes above
CalculateAny == CalculateWith(ReadOutcomes, WriteOutcomes, RaiseOutcomes)

\* self._save_analytics_results(results)
SaveResults ==
    /\ pc = "save"
    /\ \E ok \in BOOLEAN :
         LET w == SaveAnalyticsResults(user_analytics, results, ok)
         IN /\ saved' = w.ret
            /\ user_analytics' = w.table
    /\ pc' = "finish"
    /\ UNCHANGED <<jobs, snapshot, cur, retry_count, wait_time, crashes, results,
                   histVars, today, biometric_data, fetchVars, saveVars, detailed_metrics>>

\* self._update_job_status(job_id, 'completed') or (job_id, 'failed'), then the
\* for loop moves to the next job of the snapshot
FinishJob ==
    /\ pc = "finish"
    /\ \E ok \in BOOLEAN :
         jobs' = UpdateJobStatus(jobs, CurrentJob, IF saved THEN "completed" ELSE "failed", ok)
    /\ cur' = cur + 1
    /\ pc' = IF cur + 1 > Len(snapshot) THEN "end" ELSE "mark"
    /\ UNCHANGED <<snapshot, retry_count, wait_time, saved, crashes, results,
                   computed, recomputed, abandoned, consec, today, biometric_data, fetchVars, saveVars, tableVars>>

\* retry_count = 0; time.sleep(self.processing_interval) returns
EndIteration ==
    /\ pc = "end"
    /\ retry_count' = 0
    /\ consec' = 0
    /\ pc' = "poll"
    /\ UNCHANGED <<jobs, snapshot, cur, wait_time, saved, crashes, results, computed, recomputed, abandoned, today, biometric_data, fetchVars, saveVars, tableVars>>

\* retry_count = 0; time.sleep(self.processing_interval) raises (an interval
\* that time.sleep rejects): the except branch runs with retry_count = 0
SleepRaises ==
    /\ pc = "end"
    /\ consec < MaxConsec
    /\ LoopFailure(0)
    /\ UNCHANGED <<jobs, snapshot, cur, saved, crashes, results, computed, recomputed,
                   abandoned, today, biometric_data, fetchVars, saveVars, tableVars>>

\* an exception that reaches the except branch of run_processor before
\* retry_count is reset
LoopError ==
    /\ pc = "poll"
    /\ consec < MaxConsec
    /\ LoopFailure(retry_count)
    /\ UNCHANGED <<jobs, snapshot, cur, saved, crashes, results, computed, recomputed,
                   abandoned, today, biometric_data, fetchVars, saveVars, tableVars>>

\* time.sleep(wait_time) of the except branch; wait_time is dead afterwards
Backoff ==
    /\ pc = "backoff"
    /\ pc' = "poll"
    /\ wait_time' = 0
    /\ UNCHANGED <<jobs, snapshot, cur, retry_count, saved, crashes, results, histVars,
                   today, biometric_data, fetchVars, saveVars, tableVars>>

\* the jobs of the snapshot that no _process_job call has been made for
Unmarked ==
    CASE pc = "mark" -> {snapshot[i] : i \in cur..Len(snapshot)}
      [] pc \in {"calc", "save", "finish"} -> {snapshot[i] : i \in (cur + 1)..Len(snapshot)}
      [] OTHER -> {}

\* the processor's process ends (the only cancellation there is)
Crash ==
    /\ pc \notin {"down", "exited"}
    /\ crashes < MaxCrashes
    /\ crashes' = crashes + 1
    /\ abandoned' = abandoned \cup Unmarked
    /\ pc' = "down"
    /\ snapshot' = <<>>
    /\ cur' = 1
    /\ results' = <<>>
    /\ saved' = FALSE
    /\ UNCHANGED <<jobs, retry_count, wait_time, computed, recomputed, consec,
                   today, biometric_data, fetchVars, saveVars, tableVars>>

\* analytics_service.run_processor() of a new process: retry_count = 0
Restart ==
    /\ pc \in {"down", "exited"}
    /\ pc' = "poll"
    /\ retry_count' = 0
    /\ wait_time' = 0
    /\ consec' = 0
    /\ UNCHANGED <<jobs, snapshot, cur, saved, crashes, results, computed, recomputed,
                   abandoned, today, biometric_data, fetchVars, saveVars, tableVars>>

\* a producer inserts a job (the dashboard's "fetch now", the fetch cycle)
Enqueue ==
    /\ Len(jobs) < MaxJobs
    /\ \E u \in Users : jobs' = InsertJob(jobs, u)
    /\ UNCHANGED <<procVars, histVars, today, biometric_data, fetchVars, saveVars, tableVars>>

(***************************************************************************)
(* Payloads and stored telemetry the model starts from                     *)
(***************************************************************************)
Day0 == 19680          \* the day the model starts on (days since the epoch)

\* a steps payload: a list of interval objects {"steps": v}
RECURSIVE Intervals(_)
Intervals(vals) ==
    IF Len(vals) = 0 THEN <<>>
    ELSE <<Dict(<<KV("steps", Num(Head(vals)))>>)>> \o Intervals(Tail(vals))

StepsPayload(vals) == List(Intervals(vals))

SaveCall(u, day, dt, data) == [u |-> u, day |-> day, dt |-> dt, data |-> data]

\* the store after the successful _save_to_timescale calls of a history
RECURSIVE StoreAfter(_, _)
StoreAfter(store, calls) ==
    IF Len(calls) = 0 THEN store
    ELSE LET c == Head(calls)
         IN StoreAfter(SaveToTimescale(store, c.u, c.day, c.dt, c.data, TRUE).store,
                       Tail(calls))

\* the fetch history the queue's processor starts after
InitHistory == <<SaveCall(1, Day0 - 1, "steps", StepsPayload(<<300, 400>>))>>

(***************************************************************************)
(* The fetch service: fetch_and_store_data and _trigger_analytics          *)
(***************************************************************************)
\* the data types of AVAILABLE_METHODS, in the order of the dict
AVAILABLE_METHODS ==
    <<"steps", "stats", "heart_rate", "hrv", "stress", "sleep", "resting_hr",
      "respiration", "intensity_minutes", "body_battery", "spo2", "max_metrics",
      "fitness_age", "floors">>

\* self.user_id of the fetch service
ServiceUser == 1

SleepPayload ==
    Dict(<<KV("dailySleepDTO", Dict(<<KV("sleepTimeSeconds", Num(28800)),
                                      KV("deepSleepSeconds", Null)>>)),
           KV("napTimeSeconds", Num(600))>>)

\* what _safe_call returns for a data type: None (Null) or a payload of the source
Answers(dt) ==
    CASE dt = "steps" -> {Null, StepsPayload(<<300, 400>>), Dict(<<>>)}
      [] dt = "sleep" -> {Null, SleepPayload}
      [] OTHER -> {Null}

LoginOutcomes == {"ok", "rate_limit", "fail"}

\* the exceptions a call of the source raises, by what str(e) contains
SourceErrors == {"429", "authentication", "other"}

\* what one invocation of a source method does: it returns a payload (err = "")
\* or it raises
Responses(dt) ==
    {[err |-> "", data |-> a] : a \in Answers(dt)}
        \cup {[err |-> e, data |-> Null] : e \in SourceErrors}

\* a _safe_call that has not invoked the method
NoCall ==
    [client |-> FALSE, attempts |-> 0, first |-> "unmade", second |-> "unmade",
     ret |-> Null, raised |-> FALSE]

\* a second invocation that nothing guards: what it raises leaves _safe_call
UncaughtRetry(r) == [ret |-> r.data, raised |-> r.err # ""]

\* the second invocation of the method, in a try whose except logs the error
\* and makes _safe_call return None
Retry(r) == [ret |-> r.data, raised |-> FALSE]

\* fetch_and_store_data up to the loop: the cooldown check, the login when there
\* is no client, and the initialisation of the loop (days_back = 1)
FetchBegin ==
    /\ fpc = "idle"
    /\ Len(jobs) < MaxJobs
    /\ \E outcome \in LoginOutcomes :
         /\ client' = IF cooldown THEN client
                      ELSE IF client THEN TRUE ELSE outcome = "ok"
         /\ cooldown' = IF cooldown THEN TRUE
                        ELSE IF client THEN FALSE ELSE outcome = "rate_limit"
         /\ limited' = (limited \/ (~cooldown /\ ~client /\ outcome = "rate_limit"))
    /\ late_call' = (late_call \/ (limited /\ ~cooldown /\ ~client))
    /\ fpc' = IF ~cooldown /\ client' THEN "fetch" ELSE "idle"
    /\ method' = 1
    /\ stored_data_count' = 0
    /\ cycle_rows' = 0
    /\ UNCHANGED <<jobs, procVars, histVars, today, biometric_data, tableVars, saveVars,
                   call>>

\* 3700 seconds have passed since the source last answered 429; the 60 seconds
\* _safe_call sleeps before its retry are shorter
CooldownElapses ==
    /\ cooldown \/ limited
    /\ fpc # "retry"
    /\ cooldown' = FALSE
    /\ limited' = FALSE
    /\ UNCHANGED <<jobs, procVars, histVars, today, biometric_data, tableVars, saveVars,
                   fpc, method, stored_data_count, client, cycle_rows, call, late_call>>

\* the rest of the loop body once _safe_call has returned result:
\* _save_to_timescale when the result is not None, then the next method
StoreResult(result) ==
    /\ \E db_ok \in BOOLEAN :
         \E w \in {SaveToTimescale(biometric_data, ServiceUser, today,
                                   AVAILABLE_METHODS[method], result, db_ok)} :
            LET stored == result.t # "null" /\ w.ret
            IN /\ biometric_data' = IF result.t # "null" THEN w.store ELSE biometric_data
               /\ stored_data_count' = IF stored THEN stored_data_count + 1
                                       ELSE stored_data_count
               /\ cycle_rows' = IF stored THEN cycle_rows + Len(w.rows) ELSE cycle_rows
    /\ method' = IF method = Len(AVAILABLE_METHODS) THEN 1 ELSE method + 1
    /\ fpc' = IF method = Len(AVAILABLE_METHODS) THEN "trigger" ELSE "fetch"

\* an exception reaches the except clause of fetch_and_store_data, which logs
\* it and returns 0
FetchRaises ==
    /\ fpc' = "idle"
    /\ UNCHANGED <<biometric_data, method, stored_data_count, cycle_rows>>

\* one iteration of the loop over AVAILABLE_METHODS, up to the first invocation
\* of the method by _safe_call: without a client _safe_call returns None; a
\* rate-limit error leads to the retry after 60 seconds, an authentication error
\* to the re-login, and any other outcome ends the call
FetchCall ==
    /\ fpc = "fetch"
    /\ IF ~client
       THEN /\ call' = NoCall
            /\ StoreResult(Null)
            /\ UNCHANGED <<limited, late_call>>
       ELSE \E r \in Responses(AVAILABLE_METHODS[method]) :
               /\ late_call' = (late_call \/ limited)
               /\ limited' = (limited \/ r.err = "429")
               /\ call' = [client |-> TRUE, attempts |-> 1, first |-> r.err,
                           second |-> "unmade", ret |-> r.data, raised |-> FALSE]
               /\ IF r.err \in {"429", "authentication"}
                  THEN /\ fpc' = IF r.err = "429" THEN "retry" ELSE "relogin"
                       /\ UNCHANGED <<biometric_data, method, stored_data_count,
                                      cycle_rows>>
                  ELSE StoreResult(r.data)
    /\ UNCHANGED <<jobs, procVars, histVars, today, tableVars, saveVars, client, cooldown>>

\* _safe_call after a rate-limit error: time.sleep(60), then the method again
RetryCall ==
    /\ fpc = "retry"
    /\ \E r \in Responses(AVAILABLE_METHODS[method]) :
         \E x \in {Retry(r)} :
            /\ late_call' = (late_call \/ limited)
            /\ limited' = (limited \/ r.err = "429")
            /\ call' = [call EXCEPT !.attempts = 2, !.second = r.err, !.ret = x.ret,
                                    !.raised = x.raised]
            /\ IF x.raised THEN FetchRaises ELSE StoreResult(x.ret)
    /\ UNCHANGED <<jobs, procVars, histVars, today, tableVars, saveVars, client, cooldown>>

\* _safe_call after an authentication error: _login_to_garmin (which reuses a
\* session younger than 30 minutes), then the method again; without a client the
\* getattr raises, which the same except catches
Relogin ==
    /\ fpc = "relogin"
    /\ \E outcome \in LoginOutcomes \cup {"reuse"},
          r \in Responses(AVAILABLE_METHODS[method]) :
         LET login == IF outcome # "reuse" /\ cooldown THEN "cooldown" ELSE outcome
             logs_in == login \in LoginOutcomes
         IN \E x \in {IF login \in {"ok", "reuse"} THEN Retry(r)
                      ELSE [ret |-> Null, raised |-> FALSE]} :
              /\ client' = (login \in {"ok", "reuse"})
              /\ cooldown' = IF login = "rate_limit" THEN TRUE
                             ELSE IF login = "ok" THEN FALSE ELSE cooldown
              /\ late_call' = (late_call \/ (limited /\ (logs_in \/ client')))
              /\ limited' = (limited \/ login = "rate_limit" \/ (client' /\ r.err = "429"))
              /\ call' = IF client'
                         THEN [call EXCEPT !.attempts = 2, !.second = r.err,
                                           !.ret = x.ret, !.raised = x.raised]
                         ELSE [call EXCEPT !.ret = Null]
              /\ IF x.raised THEN FetchRaises ELSE StoreResult(x.ret)
    /\ UNCHANGED <<jobs, procVars, histVars, today, tableVars, saveVars>>

\* if stored_data_count > 0: self._trigger_analytics(), whose INSERT may fail
\* (the failure is logged); then fetch_and_store_data returns
TriggerAnalytics ==
    /\ fpc = "trigger"
    /\ \E ok \in BOOLEAN :
         jobs' = IF stored_data_count > 0 /\ ok THEN InsertJob(jobs, ServiceUser) ELSE jobs
    /\ fpc' = "idle"
    /\ UNCHANGED <<procVars, histVars, today, biometric_data, tableVars, saveVars,
                   method, stored_data_count, client, cooldown, cycle_rows, call,
                   limited, late_call>>

(***************************************************************************)
(* Direct calls of _save_to_timescale, and the passing of days             *)
(***************************************************************************)
MaxSaves == 2          \* at most this many direct _save_to_timescale calls
MaxDays == 1           \* the calendar advances at most this many days

\* rows: the rows the call built; again: the call repeats the call before it, which had returned True
NoSave ==
    [call |-> SaveCall(0, 0, "", Null), db_ok |-> FALSE, ret |-> FALSE, rows |-> <<>>,
     again |-> FALSE]

\* _save_to_timescale(c.u, c.day, c.dt, c.data) for a call c of calls
SaveFrom(calls) ==
    /\ saves < MaxSaves
    /\ \E c \in calls, db_ok \in BOOLEAN :
         \E w \in {SaveToTimescale(biometric_data, c.u, c.day, c.dt, c.data, db_ok)} :
            /\ biometric_data' = w.store
            /\ last_save' = [call |-> c, db_ok |-> db_ok, ret |-> w.ret,
                             rows |-> IF c.data.t = "null" THEN <<>>
                                      ELSE Normalize(c.u, c.day, c.dt, c.data).rows,
                             again |-> c = last_save.call /\ last_save.ret]
    /\ saves' = saves + 1
    /\ UNCHANGED <<jobs, procVars, histVars, today, tableVars, fetchVars>>

\* midnight passes
Tick ==
    /\ today < Day0 + MaxDays
    /\ today' = today + 1
    /\ UNCHANGED <<jobs, procVars, histVars, biometric_data, tableVars, fetchVars, saveVars>>

(***************************************************************************)
(* The analytics processor with its queue                                  *)
(***************************************************************************)
InitProcessor ==
    /\ pc = "poll"
    /\ snapshot = <<>>
    /\ cur = 1
    /\ retry_count = 0
    /\ wait_time = 0
    /\ saved = FALSE
    /\ crashes = 0
    /\ computed = {}
    /\ recomputed = {}
    /\ abandoned = {}
    /\ consec = 0
    /\ results = <<>>
    /\ detailed_metrics = {}
    /\ user_analytics = {}

InitFetch ==
    /\ fpc = "idle"
    /\ method = 1
    /\ stored_data_count = 0
    /\ client = FALSE
    /\ cooldown = FALSE
    /\ cycle_rows = 0
    /\ call = NoCall
    /\ limited = FALSE
    /\ late_call = FALSE
    /\ last_save = NoSave
    /\ saves = 0

Init ==
    /\ jobs = <<>>
    /\ InitProcessor
    /\ InitFetch
    /\ today = Day0
    /\ biometric_data = StoreAfter(<<>>, InitHistory)

Next ==
    \/ Enqueue
    \/ GetPendingJobs
    \/ MarkProcessing
    \/ Calculate
    \/ SaveResults
    \/ FinishJob
    \/ EndIteration
    \/ Crash
    \/ Restart

Spec == Init /\ [][Next]_vars

(***************************************************************************)
(* Claims about the job queue and its processor                            *)
(***************************************************************************)
StatusOf(j) == jobs[j].status

AllowedTransitions ==
    {<<"pending", "processing">>, <<"processing", "completed">>,
     <<"processing", "failed">>}

\* C1: the status of a job changes only along pending -> processing,
\* processing -> completed or processing -> failed, and a job that is completed
\* or failed is never handed to _process_job again.
C1_OnlyLegalTransitions ==
    [][/\ \A j \in 1..Len(jobs) :
             jobs'[j].status # jobs[j].status
                => <<jobs[j].status, jobs'[j].status>> \in AllowedTransitions
       /\ pc' = "mark" => jobs'[snapshot'[cur']].status \notin {"completed", "failed"}]_vars

\* C2: in every reachable state at most one job has status 'processing'.
C2_AtMostOneProcessing ==
    Cardinality({j \in 1..Len(jobs) : StatusOf(j) = "processing"}) <= 1

\* C3: when _process_job returns for a job whose computation failed (it raised,
\* or its results could not be saved) the job is 'failed', and one whose results
\* were saved is 'completed'; and when the for loop ends, _calculate_analytics
\* has been started for every job of the snapshot.
C3_FailureIsolated ==
    /\ [][(pc = "finish" /\ pc' \in {"mark", "end"})
            => jobs'[snapshot[cur]].status = IF saved THEN "completed" ELSE "failed"]_vars
    /\ [](pc = "end" => Range(snapshot) \subseteq computed)

\* C4: _calculate_analytics is started at most once for every job.
C4_ComputedAtMostOnce == recomputed = {}

NextLoop ==
    \/ Enqueue
    \/ GetPendingJobs
    \/ MarkProcessing
    \/ Calculate
    \/ SaveResults
    \/ FinishJob
    \/ EndIteration
    \/ SleepRaises
    \/ LoopError
    \/ Backoff
    \/ Restart

SpecLoop == Init /\ [][NextLoop]_vars

\* C8: the loop has exited whenever more than max_retries consecutive
\* iterations have raised a loop-level error, every backoff wait is at most 60
\* seconds, and the failure count is 0 after an iteration that did not raise.
C8_BoundedConsecutiveFailures ==
    /\ pc # "exited" => consec <= max_retries
    /\ wait_time <= BackoffCap
    /\ consec = 0 => retry_count = 0

(***************************************************************************)
(* The fetch service with the job queue it feeds                           *)
(***************************************************************************)
\* the queues the fetch service may find: fewer than MaxJobs jobs of any status
JobQueues ==
    UNION {[1..n -> [user_id : Users, status : Statuses]] : n \in 0..(MaxJobs - 1)}

InitFetchService ==
    /\ jobs \in JobQueues
    /\ InitProcessor
    /\ InitFetch
    /\ today = Day0
    /\ biometric_data = <<>>

NextFetch ==
    \/ FetchBegin
    \/ CooldownElapses
    \/ FetchCall
    \/ RetryCall
    \/ Relogin
    \/ TriggerAnalytics
    \/ Enqueue

SpecFetch == InitFetchService /\ [][NextFetch]_vars

\* C6: the step that ends a fetch cycle which wrote at least one row appends
\* exactly one pending job of the service's user and leaves the existing jobs as
\* they are, and no call of the cycle's loop changes the queue.
C6_CycleEnqueuesOneJob ==
    [][/\ (fpc = "trigger" /\ fpc' = "idle" /\ cycle_rows > 0)
            => jobs' = Append(jobs, [user_id |-> ServiceUser, status |-> "pending"])
       /\ (fpc = "fetch" /\ method' # method) => jobs' = jobs]_vars


\* C21: after the source has answered a call (a login or a data call) with a
\* rate limit (429), the service calls the source again only once 3700 seconds
\* have passed: no call is ever made while the window is open.
C21_NoCallInCooldown == ~late_call

InitCalls ==
    /\ jobs = <<>>
    /\ InitProcessor
    /\ InitFetch
    /\ today = Day0
    /\ biometric_data = <<>>

NextCalls ==
    \/ FetchBegin
    \/ CooldownElapses
    \/ FetchCall
    \/ RetryCall
    \/ Relogin
    \/ TriggerAnalytics

SpecCalls == InitCalls /\ [][NextCalls]_vars

\* the last attempt the current _safe_call made has raised
LastAttemptFailed ==
    IF call.second # "unmade" THEN call.second # ""
    ELSE call.first \notin {"", "unmade"}

\* C22: every _safe_call ends after at most two invocations of the method (the
\* step after the first one returns), lets no exception reach the fetch loop,
\* and returns None when its last attempt has raised or when there was no client.
C22_SafeCallBounded ==
    [][/\ call'.attempts <= 2
       /\ ~call'.raised
       /\ (fpc \in {"retry", "relogin"} /\ fpc' # fpc)
            => fpc' \notin {"retry", "relogin"}
       /\ fpc' \in {"retry", "relogin"} => call'.attempts = 1
       /\ fpc' \notin {"retry", "relogin"} =>
            /\ ~call'.client => call'.attempts = 0 /\ call'.ret = Null
            /\ LastAttemptFailed' => call'.ret = Null]_vars

\* a _safe_call whose first attempt was rate limited and whose retry raised
\* has returned None to the loop
C22_Witness ==
    /\ fpc \in {"fetch", "trigger"}
    /\ call.attempts = 2
    /\ call.first = "429"
    /\ call.second = "other"
    /\ call.ret = Null

\* C27: the step that ends a fetch cycle which wrote no row to the time-series
\* store leaves the job queue as it is.
C27_NoRowsNoJob ==
    [][(fpc = "trigger" /\ fpc' = "idle" /\ cycle_rows = 0) => jobs' = jobs]_vars

(***************************************************************************)
(* The normalizer and the time-series store under direct calls             *)
(***************************************************************************)
\* a list of n copies of x
Repeat(x, n) == List([i \in 1..n |-> x])

HeartRatePayload ==
    Dict(<<KV("restingHeartRate", Num(52)),
           KV("heartRateValues",
              List(<<List(<<NumMs(1700352000, 0), Num(60)>>),
                     List(<<NumMs(1700352060, 0), Num(62)>>),
                     List(<<Null, Num(64)>>)>>))>>)

\* the same instant twice in one time series
RepeatedInstantPayload ==
    Dict(<<KV("heartRateValues",
              List(<<List(<<NumMs(1700352000, 0), Num(60)>>),
                     List(<<NumMs(1700352000, 0), Num(61)>>)>>))>>)

\* a reading of the evening before the requested day among the day's readings
EarlierInstantPayload ==
    Dict(<<KV("heartRateValues",
              List(<<List(<<NumMs(Day0 * SecPerDay - 60, 0), Num(58)>>),
                     List(<<NumMs(Day0 * SecPerDay, 0), Num(60)>>)>>))>>)

\* a day of n readings two minutes apart, the last one repeating the instant of
\* the one before it
LongSeries(n) ==
    List([i \in 1..n |-> List(<<NumMs(Day0 * SecPerDay + 120 * Min(i, n - 1), 0), Num(60)>>)])

\* a time series that fills one page of the insert and starts a second one
TwoPagePayload == Dict(<<KV("heartRateValues", LongSeries(page_size + 2))>>)

\* a summary with one value that json.dumps rejects
MalformedKeyPayload ==
    Dict(<<KV("restingHeartRate", Num(52)), KV("maxHeartRate", Bad)>>)

\* the payloads of the direct calls, by data type
StorePayloads(dt) ==
    CASE dt = "steps" ->
            {StepsPayload(<<300, 400>>), StepsPayload(<<500>>), List(<<>>),
             List(<<Num(7), Bad, Num(9)>>), Repeat(Num(1), max_items),
             Repeat(Num(1), max_items + 1)}
      [] dt = "sleep" -> {SleepPayload, Dict(<<KV("napTimeSeconds", Bad)>>)}
      [] dt = "heart_rate" ->
            {HeartRatePayload, RepeatedInstantPayload, EarlierInstantPayload,
             TwoPagePayload, MalformedKeyPayload}
      [] dt = "resting_hr" -> {Num(52), Bad, Null}
      [] OTHER -> {}

StoreDataTypes == {"steps", "sleep", "heart_rate", "resting_hr"}

StoreCalls ==
    UNION {{SaveCall(ServiceUser, Day0, dt, data) : data \in StorePayloads(dt)} :
              dt \in StoreDataTypes}

SaveTelemetry == SaveFrom(StoreCalls)

InitStore ==
    /\ jobs = <<>>
    /\ InitProcessor
    /\ InitFetch
    /\ today = Day0
    /\ biometric_data = <<>>

NextStore == SaveTelemetry

SpecStore == InitStore /\ [][NextStore]_vars

\* C9: when a _save_to_timescale call that stored its rows is repeated with the
\* same user, day, data type and payload and stores its rows again, the store
\* is left as the first call left it: the same rows with the same keys, values
\* and raw payloads.
C9_SaveTwiceIsSaveOnce ==
    [][(saves' = saves + 1 /\ last_save.ret /\ last_save'.ret
          /\ last_save'.call = last_save.call)
         => biometric_data' = biometric_data]_vars

C9_Witness ==
    /\ last_save.again
    /\ last_save.ret
    /\ Len(last_save.rows) > 1
    /\ \A i \in 1..Len(last_save.rows) :
          \E j \in 1..Len(biometric_data) : biometric_data[j] = last_save.rows[i]

\* the rows of a normalization whose metric name is m
RowsNamed(rows, m) == {i \in 1..Len(rows) : rows[i].metric_name = m}

\* C10: the rows built for a list payload of length n hold exactly one
\* "{data_type}.count" row, with value n; no item row when n > 250; and when
\* n <= 250 exactly one "{data_type}.item_i" row for each element i that
\* json.dumps accepts.
C10_ListCountAndItems ==
    last_save.call.data.t = "list" =>
        LET items == last_save.call.data.items
            n == Len(items)
            dt == last_save.call.dt
            rows == last_save.rows
        IN /\ Cardinality(RowsNamed(rows, CountMetric(dt))) = 1
           /\ \A i \in RowsNamed(rows, CountMetric(dt)) :
                 rows[i].value = Dumps(Dict(<<KV("count", Num(n))>>))
           /\ n > max_items => \A i \in 1..Len(rows) : rows[i].metric_name.kind # "item"
           /\ n <= max_items =>
                 \A k \in 1..n : Serializable(items[k])
                                   => Cardinality(RowsNamed(rows, ItemMetric(dt, k - 1))) = 1

\* C11: the rows built by one _save_to_timescale call have pairwise distinct
\* keys (user_id, timestamp, data_type, metric_name), whatever the shape of the
\* payload.
C11_DistinctKeys == ~HasDuplicateKeys(last_save.rows)

\* C12: every row built by a _save_to_timescale call for calendar day D has a
\* timestamp on day D, the rows of entries with an embedded epoch or ISO
\* timestamp included.
C12_RowsOnCallDay ==
    \A i \in 1..Len(last_save.rows) :
        last_save.rows[i].timestamp.day = last_save.call.day

\* the elements of a dict or list payload, and the metric name of element i
ElementsOf(data) ==
    IF data.t = "dict" THEN [i \in 1..Len(data.items) |-> data.items[i].v]
    ELSE data.items

ElementMetric(dt, data, i) ==
    IF data.t = "dict" THEN KeyMetric(dt, data.items[i].k) ELSE ItemMetric(dt, i - 1)

\* C13: when exactly one element of a dict or list payload is malformed (here:
\* json.dumps rejects it) and the database accepts the insert, the call returns
\* True and the store holds the row of every other scalar element.
C13_OnlyMalformedRowOmitted ==
    LET c == last_save.call
        elems == ElementsOf(c.data)
        bad == {i \in 1..Len(elems) : ~Serializable(elems[i])}
    IN (/\ IsContainer(c.data) /\ last_save.db_ok
        /\ Len(elems) <= max_items /\ Cardinality(bad) = 1)
       => /\ last_save.ret
          /\ \A i \in (1..Len(elems)) \ bad :
                ~IsContainer(elems[i])
                  => \E j \in 1..Len(biometric_data) :
                        /\ biometric_data[j].user_id = c.u
                        /\ biometric_data[j].data_type = c.dt
                        /\ biometric_data[j].timestamp.day = c.day
                        /\ biometric_data[j].metric_name = ElementMetric(c.dt, c.data, i)

\* C14: a _save_to_timescale call is all or nothing: when it returns True every
\* row it built is in the store, and when it returns False the store is as it
\* was before the call.
C14_BatchIsAtomic ==
    [][saves' = saves + 1
         => IF last_save'.ret
            THEN Range(last_save'.rows) \subseteq Range(biometric_data')
            ELSE biometric_data' = biometric_data]_vars

\* the insert of a batch failed in its second page, after an earlier call had
\* stored rows
C14_Witness ==
    /\ ~last_save.ret /\ last_save.db_ok
    /\ Len(last_save.rows) > page_size
    /\ ~HasDuplicateKeys(SubSeq(last_save.rows, 1, page_size))
    /\ Len(biometric_data) > 0

(***************************************************************************)
(* The processor while telemetry arrives and days pass                     *)
(***************************************************************************)
\* the fetches that arrive while the processor runs
ResultCalls == {SaveCall(ServiceUser, Day0, "steps", StepsPayload(<<500>>))}

\* a fetch of the service stores a payload while the processor runs
Refetch ==
    /\ saves < MaxSaves
    /\ \E c \in ResultCalls :
         biometric_data' = SaveToTimescale(biometric_data, c.u, c.day, c.dt, c.data, TRUE).store
    /\ saves' = saves + 1
    /\ UNCHANGED <<jobs, procVars, histVars, today, tableVars, fetchVars, last_save>>

\* two jobs of one user are waiting when the processor starts
InitResults ==
    /\ jobs = InsertJob(InsertJob(<<>>, ServiceUser), ServiceUser)
    /\ InitProcessor
    /\ InitFetch
    /\ today = Day0
    /\ biometric_data = StoreAfter(<<>>, InitHistory)

NextResults ==
    \/ GetPendingJobs
    \/ MarkProcessing
    \/ Calculate
    \/ SaveResults
    \/ FinishJob
    \/ EndIteration
    \/ Refetch
    \/ Tick

SpecResults == InitResults /\ [][NextResults]_vars

SeriesPayload(key, a, b) ==
    Dict(<<KV(key, List(<<List(<<NumMs(Day0 * SecPerDay + 60, 0), Num(a)>>),
                          List(<<NumMs(Day0 * SecPerDay + 120, 0), Num(b)>>)>>))>>)

\* the payloads the source has returned for the day, by data type
ExtractPayloads(dt) ==
    CASE dt = "steps" ->
            {StepsPayload(<<300, 400>>), StepsPayload(<<0, 0, 1>>),
             List(<<Num(7), Num(9)>>), Dict(<<KV("totalSteps", Null)>>)}
      [] dt = "hrv" ->
            {Dict(<<KV("weeklyAvg", Num(45)), KV("lastNightAvg", Num(40))>>),
             Dict(<<KV("lastNightAvg", Num(40)), KV("weeklyAvg", Num(45))>>),
             List(<<Dict(<<KV("weeklyAvg", Num(45)), KV("lastNightAvg", Num(40))>>)>>),
             Dict(<<KV("weeklyAvg", Num(45))>>)}
      [] dt = "heart_rate" -> {HeartRatePayload}
      [] dt = "stress" -> {SeriesPayload("stressValuesArray", 20, 40)}
      [] dt = "floors" -> {Dict(<<KV("totalFloors", Num(3))>>)}
      [] OTHER -> {}

ExtractCalls ==
    UNION {{SaveCall(ServiceUser, Day0, dt, data) : data \in ExtractPayloads(dt)} :
              dt \in Range(AVAILABLE_METHODS)}

\* the fetch cycles before the job: one data type stored, or two
ExtractHistories ==
    {<<c>> : c \in ExtractCalls}
       \cup {h \in ExtractCalls \X ExtractCalls : h[1].dt # h[2].dt}

InitExtract ==
    /\ jobs = InsertJob(<<>>, ServiceUser)
    /\ InitProcessor
    /\ InitFetch
    /\ today = Day0
    /\ biometric_data \in {StoreAfter(<<>>, h) : h \in ExtractHistories}

NextExtract ==
    \/ GetPendingJobs
    \/ MarkProcessing
    \/ Calculate
    \/ SaveResults
    \/ FinishJob
    \/ EndIteration

SpecExtract == InitExtract /\ [][NextExtract]_vars

\* _calculate_analytics has returned results for the job's user
Calculated == pc = "calc" /\ pc' = "save" /\ Len(results') > 0

\* the numbers stored under key for user u, data type dt and day d, one for each
\* stored row whose value is an object holding a number under key
StoredNumbers(u, dt, d, key) ==
    LET S == {i \in 1..Len(biometric_data) :
                 /\ biometric_data[i].user_id = u
                 /\ biometric_data[i].data_type = dt
                 /\ biometric_data[i].timestamp.day = d
                 /\ Loads(biometric_data[i].value).t = "dict"
                 /\ HasKey(Loads(biometric_data[i].value), key)
                 /\ Get(Loads(biometric_data[i].value), key).t = "num"}
    IN [i \in S |-> Get(Loads(biometric_data[i].value), key).v]

\* the sum of the numbers of a function f
RECURSIVE SumOf(_)
SumOf(f) ==
    IF DOMAIN f = {} THEN 0
    ELSE LET i == CHOOSE j \in DOMAIN f : TRUE
         IN f[i] + SumOf([j \in DOMAIN f \ {i} |-> f[j]])

\* the row of detailed_metrics' for user u, day d and metric m has value v
Extracted(u, d, m, v) ==
    \E x \in detailed_metrics' :
        x.user_id = u /\ x.date = d /\ x.metric_name = m /\ x.metric_value = v

\* C15: when the stored HRV rows of a day hold a lastNightAvg value and a
\* weeklyAvg value, in one row or in two, the day's avg_hrv is the
\* lastNightAvg value.
C15_RecentNightPreferred ==
    [][Calculated =>
         LET u == jobs[CurrentJob].user_id
             last_night == StoredNumbers(u, "hrv", Day0, "lastNightAvg")
             weekly == StoredNumbers(u, "hrv", Day0, "weeklyAvg")
         IN (DOMAIN last_night # {} /\ DOMAIN weekly # {})
            => \E i \in DOMAIN last_night : Extracted(u, Day0, "avg_hrv", Rat(last_night[i], 1))]_vars

\* C16: for a day with a steps.count row or steps.item_i rows, the day's steps
\* value is the greater of the count and the sum of the interval values; with
\* only one of the two stored it is that one.
C16_StepsIsGreaterOfCountAndSum ==
    [][Calculated =>
         LET u == jobs[CurrentJob].user_id
             count == StoredNumbers(u, "steps", Day0, "count")
             items == StoredNumbers(u, "steps", Day0, "steps")
             c == IF DOMAIN count = {} THEN 0 ELSE count[CHOOSE i \in DOMAIN count : TRUE]
         IN (DOMAIN count # {} \/ DOMAIN items # {})
            => /\ Extracted(u, Day0, "steps", Rat(Max(c, SumOf(items)), 1))
               /\ DOMAIN items = {} => Extracted(u, Day0, "steps", Rat(c, 1))
               /\ DOMAIN count = {} => Extracted(u, Day0, "steps", Rat(SumOf(items), 1))]_vars

\* the day's steps come from interval values that exceed the count
C16_Witness ==
    /\ pc = "save" /\ Len(results) > 0
    /\ \E x \in detailed_metrics :
          /\ x.user_id = ServiceUser /\ x.date = Day0 /\ x.metric_name = "steps"
          /\ x.metric_value = Rat(700, 1)
    /\ \E i \in 1..Len(biometric_data) :
          /\ biometric_data[i].metric_name = CountMetric("steps")
          /\ biometric_data[i].value = Dumps(Dict(<<KV("count", Num(2))>>))

\* the data types averaged over the day's readings, with the metric of each
RateFamilies ==
    {<<"heart_rate", "avg_hr">>, <<"stress", "avg_stress">>,
     <<"body_battery", "avg_body_battery">>, <<"spo2", "avg_spo2">>}

\* C17: for heart rate, stress, body battery and SpO2, when the store holds k
\* rows of a day with a reading under 'value' (the rows of a time series, which
\* share one metric_name), the day's average is the mean of the k readings.
C17_MeanOfAllReadings ==
    [][Calculated =>
         LET u == jobs[CurrentJob].user_id
         IN \A fam \in RateFamilies :
               LET readings == StoredNumbers(u, fam[1], Day0, "value")
               IN DOMAIN readings # {}
                    => Extracted(u, Day0, fam[2],
                                 Rat(SumOf(readings), Cardinality(DOMAIN readings)))]_vars

\* C18: a metric is written for a day only if the store holds a number for the
\* user on that day; a day whose rows hold no number gets no entry (no steps
\* value of 0).
C18_NoZeroFill ==
    [][Calculated =>
         \A x \in detailed_metrics' :
            \E i \in 1..Len(biometric_data) :
               /\ biometric_data[i].user_id = x.user_id
               /\ biometric_data[i].timestamp.day = x.date
               /\ LET value_data == Loads(biometric_data[i].value)
                  IN /\ value_data.t = "dict"
                     /\ \E k \in 1..Len(value_data.items) : value_data.items[k].v.t = "num"]_vars

\* C19: no result returned by _calculate_analytics and no row of user_analytics
\* has an empty metrics bundle: a window without daily metrics is skipped.
C19_NoEmptyResult ==
    /\ \A i \in 1..Len(results) :
          results[i].metrics # {} \/ results[i].correlations # {}
    /\ \A x \in user_analytics : x.metrics # {} \/ x.correlations # {}

\* C20: a job that ends 'failed' leaves user_analytics and detailed_metrics as
\* they were before it started; stated for the first job ever computed, before
\* which both tables are empty.
C20_FailedJobLeavesTables ==
    \A j \in 1..Len(jobs) :
        (jobs[j].status = "failed" /\ computed = {j} /\ recomputed = {})
           => detailed_metrics = {} /\ user_analytics = {}

\* C24: every metric that has a value on some day of the extracted window (the
\* secondary HRV metrics included) has an entry in the metrics bundle of every
\* result, whose minimum and maximum bound the day's value.
C24_EveryMetricAveraged ==
    [][Calculated =>
         \A i \in 1..Len(results') :
            \A x \in detailed_metrics' :
               x.user_id = jobs[CurrentJob].user_id
                  => \E a \in results'[i].metrics :
                        /\ a.name = x.metric_name
                        /\ RatLeq(a.min, x.metric_value)
                        /\ RatLeq(x.metric_value, a.max)]_vars

\* C28: for a day whose stored steps payload is a list of n interval objects,
\* each with a 'steps' number (a steps.count row of n and n item rows), the
\* day's steps value is the sum of the intervals' values.
C28_StepsIsSumOfIntervals ==
    [][Calculated =>
         LET u == jobs[CurrentJob].user_id
             count == StoredNumbers(u, "steps", Day0, "count")
             items == StoredNumbers(u, "steps", Day0, "steps")
         IN (DOMAIN items # {} /\ \A i \in DOMAIN count : count[i] = Cardinality(DOMAIN items))
            => Extracted(u, Day0, "steps", Rat(SumOf(items), 1))]_vars

(***************************************************************************)
(* The analyzer on the telemetry of three days                             *)
(***************************************************************************)
CorrDays == <<Day0 - 2, Day0 - 1, Day0>>

\* what the source returned on one day: the steps of the day's one interval and
\* the resting heart rate (0: the heart-rate call returned no data)
DayReadings == {40, 50} \X {0, 50, 60}

\* the saves of one day
DayCalls(day, reading) ==
    (IF reading[1] = 0 THEN <<>>
     ELSE <<SaveCall(ServiceUser, day, "steps", StepsPayload(<<reading[1]>>))>>)
    \o (IF reading[2] = 0 THEN <<>>
        ELSE <<SaveCall(ServiceUser, day, "heart_rate",
                        Dict(<<KV("restingHeartRate", Num(reading[2]))>>))>>)

CorrHistories ==
    {DayCalls(CorrDays[1], c[1]) \o DayCalls(CorrDays[2], c[2])
        \o DayCalls(CorrDays[3], c[3]) : c \in [1..Len(CorrDays) -> DayReadings]}

InitCorr ==
    /\ jobs = InsertJob(<<>>, ServiceUser)
    /\ InitProcessor
    /\ InitFetch
    /\ today = Day0
    /\ biometric_data \in {StoreAfter(<<>>, h) : h \in CorrHistories}

SpecCorr == InitCorr /\ [][NextExtract]_vars

\* C23: in every correlation matrix of a result, the entry of each column with
\* itself is 1.0.
C23_UnitDiagonal ==
    \A i \in 1..Len(results) :
       \A e \in results[i].correlations :
          e.col1 = e.col2 => e.value = Corr(1, Rat(1, 1))

(***************************************************************************)
(* A payload fetched and stored again before the job is computed           *)
(***************************************************************************)
\* the heart-rate summaries the source returns for the day: a later value of a
\* field, with the keys in the same order, in another order, or fewer of them
SummaryPayloads ==
    {Dict(<<KV("restingHeartRate", Num(52)), KV("maxHeartRate", Num(150))>>),
     Dict(<<KV("restingHeartRate", Num(55)), KV("maxHeartRate", Num(150))>>),
     Dict(<<KV("maxHeartRate", Num(150)), KV("restingHeartRate", Num(58))>>),
     Dict(<<KV("restingHeartRate", Num(60))>>)}

SummaryCalls == {SaveCall(ServiceUser, Day0, "heart_rate", p) : p \in SummaryPayloads}

SaveSummary == SaveFrom(SummaryCalls)

InitRefetch ==
    /\ jobs = InsertJob(<<>>, ServiceUser)
    /\ InitProcessor
    /\ InitFetch
    /\ today = Day0
    /\ biometric_data = <<>>

NextRefetch ==
    \/ SaveSummary
    \/ GetPendingJobs
    \/ MarkProcessing
    \/ Calculate
    \/ SaveResults
    \/ FinishJob
    \/ EndIteration

SpecRefetch == InitRefetch /\ [][NextRefetch]_vars

\* C29: after the summary of a day has been stored again, the resting heart
\* rate extraction reads for the day is the one of the most recent fetch, and
\* the store never holds two rows of one (user, day, data_type, metric_name).
C29_LatestFetchWins ==
    /\ [][(Calculated /\ saves = MaxSaves /\ last_save.ret)
            => Extracted(ServiceUser, Day0, "resting_hr",
                         Rat(Get(last_save.call.data, "restingHeartRate").v, 1))]_vars
    /\ [](\A i, j \in 1..Len(biometric_data) :
             (/\ biometric_data[i].user_id = biometric_data[j].user_id
              /\ biometric_data[i].timestamp.day = biometric_data[j].timestamp.day
              /\ biometric_data[i].data_type = biometric_data[j].data_type
              /\ biometric_data[i].metric_name = biometric_data[j].metric_name)
                => i = j)

(***************************************************************************)
(* The processor when the stores of the analytics database may fail        *)
(***************************************************************************)
NextDetails ==
    \/ GetPendingJobs
    \/ MarkProcessing
    \/ CalculateAny
    \/ SaveResults
    \/ FinishJob
    \/ EndIteration

SpecDetails == InitResults /\ [][NextDetails]_vars

\* C26: when a job becomes 'completed', detailed_metrics holds, for every
\* window the job computed and every (date, metric) of the window's daily
\* metrics, a row of the job's user with the computed value.
C26_DetailsStored ==
    [][\A j \in JobIds :
          (jobs[j].status # "completed" /\ jobs'[j].status = "completed")
             => \A i \in 1..Len(results) :
                   \A x \in DailyMetrics(UserData(biometric_data, results[i].user_id, today,
                                                  results[i].end_date - results[i].start_date)) :
                      \E r \in detailed_metrics :
                         /\ r.user_id = results[i].user_id
                         /\ r.date = x.date
                         /\ r.metric_name = x.metric
                         /\ r.metric_value = x.value]_vars

(***************************************************************************)
(* The processor that keeps running                                        *)
(***************************************************************************)
\* run_processor is a sequential loop: each of its steps is taken once it is
\* reached, and a processor that ended is started again; producers and crashes
\* are under no obligation. Calculate is enabled exactly in the position "calc"
\* and every Calculate step leaves it, so its weak fairness is written as
\* []<>(pc # "calc").
SpecLive ==
    /\ Init
    /\ [][Next]_vars
    /\ WF_vars(GetPendingJobs)
    /\ WF_vars(MarkProcessing)
    /\ []<>(pc # "calc")
    /\ WF_vars(SaveResults)
    /\ WF_vars(FinishJob)
    /\ WF_vars(EndIteration)
    /\ WF_vars(Restart)

\* C30: while the processor keeps running, every job whose status is
\* 'processing' eventually has the status 'completed' or 'failed'.
C30_ProcessingEnds ==
    \A j \in 1..MaxJobs :
       (j \in JobIds /\ jobs[j].status = "processing")
          ~> (j \in JobIds /\ jobs[j].status \in {"completed", "failed"})

====
